---- MODULE Spec2Model ----
(***************************************************************************)
(* GiveHub Python SDK (givehub-sdk.py): the authenticated request          *)
(* primitive with its 401-refresh-retry path, the auth module, and the     *)
(* notification channel (connect / _listen / on / off / disconnect).       *)
(***************************************************************************)
EXTENDS Bags, FiniteSets, Integers, Sequences, TLC

\* ------------------------------------------------------------------ bounds
\* HTTP calls one top-level API call may issue before the server is made to
\* stop answering 401 (request() recurses without a bound of its own).
MaxCalls == 5

\* HTTP calls one API call may issue when two callers run side by side.
MaxConcCalls == 3

\* Connections websockets.connect may open in one behaviour (the reconnect
\* path has no limit of its own); later attempts to open fail.
MaxConns == 2

\* ------------------------------------------------------------ value domains
None == "None"                      \* Python None
Empty == ""                         \* the empty string, falsy like None
Tokens == {"t1", "t2"}              \* non-empty token strings
RespTokens == Tokens                \* token values a response body may carry
NoHeader == "no-header"             \* the Authorization header is not set

Callers == {"c1", "c2"}             \* threads of control that may call the SDK
MainCaller == {"c1"}

EpGeneric  == "/campaigns"          \* stands for every resource endpoint
EpLogin    == "/auth/login"
EpRegister == "/auth/register"
EpVerify   == "/auth/verify"
EpRefresh  == "/auth/refresh"

StOk == 200
StUnauthorized == 401
StServerError == 500
NoStatus == 0                       \* no response at all: status_code None
Statuses == {StOk, StUnauthorized, StServerError, NoStatus}

NoResult == [kind |-> "none"]

\* Python truthiness of an Optional[str]
Truthy(t) == t \notin {None, Empty}

\* Response bodies.  The token fields matter for /auth/login (read as
\* response["tokens"][...]) and /auth/refresh (read as response["accessToken"]);
\* all other endpoints pass the body through untouched.
Body(s, a, r) == [success |-> s, accessToken |-> a, refreshToken |-> r]
PlainBody == Body(TRUE, Empty, Empty)
Bodies(ep) ==
  IF ep = EpLogin THEN {Body(s, a, r) : s \in BOOLEAN, a \in RespTokens, r \in RespTokens}
  ELSE IF ep = EpRefresh THEN {Body(s, a, Empty) : s \in BOOLEAN, a \in RespTokens}
  ELSE {PlainBody, Body(FALSE, Empty, Empty)}

Responses(ep) ==
  {[status |-> StOk, body |-> b] : b \in Bodies(ep)}
    \cup {[status |-> s, body |-> PlainBody] : s \in Statuses \ {StOk}}

\* ---------------------------------------------------------------- variables
VARIABLES
  access_token,    \* GiveHubConfig.access_token
  refresh_token,   \* GiveHubConfig.refresh_token
  op,              \* per caller: the top-level API call in progress / finished
  stack,           \* per caller: coroutine frames, innermost last
  calls,           \* per caller: HTTP calls issued by the current API call
  result,          \* per caller: what the API call returned or raised
  cfg0             \* per caller: the token fields when the API call began

httpVars == <<access_token, refresh_token, op, stack, calls, result, cfg0>>

VARIABLES
  websocket,       \* NotificationModule.websocket: the handle (NoConn = None)
  conn,            \* per connection opened by websockets.connect: its state
  sent,            \* per connection: the frames the SDK sent on it, in order
  listeners,       \* NotificationModule.listeners: event type -> callbacks
  task,            \* the _listen tasks; task k is the one created by the
                   \* connect() that opened connection k
  caller,          \* the coroutine of the caller's connect() / disconnect()
  regHist          \* history: per (event type, callback) the last on/off call

notifVars == <<websocket, conn, sent, listeners, task, caller, regHist>>
vars == <<httpVars, notifVars>>

\* ------------------------------------------------------------------ request
\* Lines 57-63: the headers of one HTTP call, built from Config at call time.
AuthHeaderUnchecked(at) == at
AuthHeader(at) == IF Truthy(at) THEN at ELSE NoHeader

Frame(fn, ep, pc) == [fn |-> fn, ep |-> ep, pc |-> pc]

\* Lines 56-71: entering request(endpoint): headers are built and the blocking
\* session.request call is issued; the frame waits for the response.
RequestFrame(ep) == Frame("request", ep, "sent")
NoResponse == [status |-> NoStatus, body |-> PlainBody]
IssuedCall(ep, at) ==
  [ep |-> ep, auth |-> AuthHeader(at), done |-> FALSE, resp |-> NoResponse]

\* Number of request() frames that still owe a retry of their endpoint.
RECURSIVE OwedRetries(_)
OwedRetries(stk) ==
  IF stk = <<>> THEN 0
  ELSE (IF stk[Len(stk)].pc = "await_refresh" THEN 1 ELSE 0)
         + OwedRetries(SubSeq(stk, 1, Len(stk) - 1))

Pop(stk) == SubSeq(stk, 1, Len(stk) - 1)

\* The outcome of running the coroutine stack from a point on, up to the next
\* HTTP call (issue # None) or up to the end of the API call (res set).
Outcome(stk, at, rt, issue, res) ==
  [stack |-> stk, at |-> at, rt |-> rt, issue |-> issue, res |-> res]

\* Lines 96-98: login stores both tokens of a response flagged success.
LoginStoreAlways(body, at, rt) == [at |-> body.accessToken, rt |-> body.refreshToken]
LoginStoreSwapped(body, at, rt) ==
  IF body.success THEN [at |-> body.refreshToken, rt |-> body.accessToken]
  ELSE [at |-> at, rt |-> rt]
LoginStore(body, at, rt) ==
  IF body.success THEN [at |-> body.accessToken, rt |-> body.refreshToken]
  ELSE [at |-> at, rt |-> rt]

\* Lines 126-127: refresh stores only the access token of a response flagged
\* success.
RefreshStoreAlways(body, at) == body.accessToken
RefreshStore(body, at) == IF body.success THEN body.accessToken ELSE at

\* A request() frame returned `body` to the frames below it.
RECURSIVE ReturnTo(_, _, _, _)
ReturnTo(stk, body, at, rt) ==
  IF stk = <<>> THEN Outcome(<<>>, at, rt, None, [kind |-> "ok", body |-> body])
  ELSE LET top == stk[Len(stk)] IN
    CASE top.fn = "refresh_access_token" ->
           \* lines 126-129
           ReturnTo(Pop(stk), body, RefreshStore(body, at), rt)
      [] top.fn = "login" ->
           \* lines 96-100
           ReturnTo(Pop(stk), body, LoginStore(body, at, rt).at, LoginStore(body, at, rt).rt)
      [] top.fn \in {"register", "verify_email"} ->
           \* lines 104-108, 112-116
           ReturnTo(Pop(stk), body, at, rt)
      [] top.fn = "request" /\ top.pc = "await_refresh" ->
           \* line 76: the refresh returned, request(endpoint) is called again
           Outcome(Pop(stk) \o <<Frame("request", top.ep, "await_retry"), RequestFrame(top.ep)>>,
                   at, rt, top.ep, NoResult)
      [] top.fn = "request" /\ top.pc = "await_retry" ->
           \* line 76: return await self.request(...)
           ReturnTo(Pop(stk), body, at, rt)

\* Lines 73-82: the in-flight call of the innermost request() frame is answered.
HandleResponseAnyRefresh(stk, resp, at, rt) ==
  LET top == stk[Len(stk)] IN
  IF resp.status = NoStatus
    THEN Outcome(<<>>, at, rt, None, [kind |-> "error", status |-> NoStatus])
  ELSE IF resp.status = StUnauthorized
    THEN Outcome(Pop(stk) \o <<Frame("request", top.ep, "await_refresh"),
                               Frame("refresh_access_token", EpRefresh, "await_request"),
                               RequestFrame(EpRefresh)>>,
                 at, rt, EpRefresh, NoResult)
  ELSE IF resp.status >= 400
    THEN Outcome(<<>>, at, rt, None, [kind |-> "error", status |-> resp.status])
  ELSE ReturnTo(Pop(stk), resp.body, at, rt)
HandleResponse(stk, resp, at, rt) ==
  LET top == stk[Len(stk)] IN
  IF resp.status = NoStatus
    THEN \* line 81-82: RequestException without a response
         Outcome(<<>>, at, rt, None, [kind |-> "error", status |-> NoStatus])
  ELSE IF resp.status = StUnauthorized /\ Truthy(rt)
    THEN \* lines 73-75 and 118-124: refresh_access_token() calls request()
         Outcome(Pop(stk) \o <<Frame("request", top.ep, "await_refresh"),
                               Frame("refresh_access_token", EpRefresh, "await_request"),
                               RequestFrame(EpRefresh)>>,
                 at, rt, EpRefresh, NoResult)
  ELSE IF resp.status >= 400
    THEN \* lines 78, 81-82: raise_for_status -> GiveHubException(status);
         \* no frame catches a GiveHubException
         Outcome(<<>>, at, rt, None, [kind |-> "error", status |-> resp.status])
  ELSE \* line 79
       ReturnTo(Pop(stk), resp.body, at, rt)

\* ------------------------------------------------------------ API operations
OpNames == {"request", "login", "register", "verify_email", "refresh_access_token"}

OpEndpoint(name) ==
  CASE name = "request" -> EpGeneric
    [] name = "login" -> EpLogin
    [] name = "register" -> EpRegister
    [] name = "verify_email" -> EpVerify
    [] name = "refresh_access_token" -> EpRefresh

\* The frames of a fresh API call: the module method (if any) awaiting request().
InitialStack(name) ==
  IF name = "request" THEN <<RequestFrame(EpGeneric)>>
  ELSE <<Frame(name, OpEndpoint(name), "await_request"), RequestFrame(OpEndpoint(name))>>

Idle == [name |-> "idle", st |-> "idle"]

\* A caller starts an API call; its first HTTP call is issued at once.
Call(c, name) ==
  /\ op[c].st # "running"
  /\ op' = [op EXCEPT ![c] = [name |-> name, st |-> "running"]]
  /\ stack' = [stack EXCEPT ![c] = InitialStack(name)]
  /\ calls' = [calls EXCEPT ![c] = <<IssuedCall(OpEndpoint(name), access_token)>>]
  /\ result' = [result EXCEPT ![c] = NoResult]
  /\ cfg0' = [cfg0 EXCEPT ![c] = [at |-> access_token, rt |-> refresh_token]]
  /\ UNCHANGED <<access_token, refresh_token, notifVars>>

\* The server (or the network) answers the in-flight call of c and the SDK code
\* runs up to its next HTTP call or to the end of the API call.
Response(c, resp) ==
  /\ op[c].st = "running"
  /\ LET n == Len(calls[c])
         ep == calls[c][n].ep
     IN /\ resp \in Responses(ep)
        /\ (resp.status = StUnauthorized /\ Truthy(refresh_token))
             => n + OwedRetries(stack[c]) + 2 <= MaxCalls
        /\ LET o == HandleResponse(stack[c], resp, access_token, refresh_token)
               answered == [calls[c] EXCEPT ![n].resp = resp, ![n].done = TRUE]
           IN /\ access_token' = o.at
              /\ refresh_token' = o.rt
              /\ stack' = [stack EXCEPT ![c] = o.stack]
              /\ calls' = [calls EXCEPT ![c] =
                             IF o.issue = None THEN answered
                             ELSE Append(answered, IssuedCall(o.issue, o.at))]
              /\ result' = [result EXCEPT ![c] = o.res]
              /\ op' = [op EXCEPT ![c].st = IF o.issue = None THEN "done" ELSE "running"]
  /\ UNCHANGED <<cfg0, notifVars>>

\* Callers on different threads: the code between two HTTP calls of one caller
\* is no longer atomic with respect to the other.  Lines 97 and 98 are two
\* assignments; a login flagged success has run line 97 and is about to run
\* line 98.
LoginMidStore == <<Frame("login", EpLogin, "store_refresh")>>

ResponseConc(c, resp) ==
  /\ op[c].st = "running"
  /\ stack[c] # LoginMidStore
  /\ LET n == Len(calls[c])
         ep == calls[c][n].ep
     IN /\ resp \in Responses(ep)
        /\ (resp.status = StUnauthorized /\ Truthy(refresh_token))
             => n + OwedRetries(stack[c]) + 2 <= MaxConcCalls
        /\ LET o == HandleResponse(stack[c], resp, access_token, refresh_token)
               answered == [calls[c] EXCEPT ![n].resp = resp, ![n].done = TRUE]
               mid == /\ op[c].name = "login"
                      /\ o.issue = None
                      /\ o.res.kind = "ok"
                      /\ o.res.body.success
           IN /\ access_token' = o.at
              /\ refresh_token' = IF mid THEN refresh_token ELSE o.rt
              /\ stack' = [stack EXCEPT ![c] = IF mid THEN LoginMidStore ELSE o.stack]
              /\ calls' = [calls EXCEPT ![c] =
                             IF o.issue = None THEN answered
                             ELSE Append(answered, IssuedCall(o.issue, o.at))]
              /\ result' = [result EXCEPT ![c] = o.res]
              /\ op' = [op EXCEPT ![c].st =
                          IF o.issue = None /\ ~mid THEN "done" ELSE "running"]
  /\ UNCHANGED <<cfg0, notifVars>>

\* Line 98, then line 100.
StoreRefresh(c) ==
  /\ op[c].st = "running"
  /\ stack[c] = LoginMidStore
  /\ refresh_token' = LoginStore(result[c].body, access_token, refresh_token).rt
  /\ stack' = [stack EXCEPT ![c] = <<>>]
  /\ op' = [op EXCEPT ![c].st = "done"]
  /\ UNCHANGED <<access_token, calls, result, cfg0, notifVars>>

\* ------------------------------------------------------ notification channel
NoConn == 0                         \* self.websocket is None
ConnIds == 1..MaxConns
TaskIds == ConnIds
EventTypes == {"donation_received", "milestone_completed"}
Callbacks == {"f", "g"}

nOpened == Cardinality({k \in ConnIds : conn[k] # "unopened"})

\* Lines 275-278: the authentication frame.
AuthFrame(tok) == [type |-> "auth", token |-> tok]

\* Line 266: connect() refuses to run without an access token.
ConnectUnguarded(tok) == TRUE
ConnectGuard(tok) == Truthy(tok)

NoTask == [pc |-> "none", on |-> NoConn, why |-> "", msg |-> "",
           todo |-> EmptyBag, size |-> 0, inv |-> <<>>]
\* asyncio.create_task(self._listen()): the task runs at a later step.
StartedTask == [NoTask EXCEPT !.pc = "start"]
\* An exception the loop does not catch ends the task.
Dead(rec, why) == [rec EXCEPT !.pc = "dead", !.why = why]

\* Lines 293-295 and 266-272: ConnectionClosed is caught and connect() runs up
\* to its first suspension, the await of websockets.connect.
HandlerPass(rec) == [rec EXCEPT !.pc = "done"]
Handler(rec) ==
  IF ConnectGuard(access_token) THEN [rec EXCEPT !.pc = "open"]
  ELSE Dead(rec, "AuthRequired")

\* Lines 286-287: the top of the loop evaluates self.websocket.recv().  The
\* handle is read afresh on every iteration; recv() refuses a second waiter,
\* raises ConnectionClosed on a closed connection, and suspends otherwise.
LoopTop(t, rec) ==
  IF websocket = NoConn THEN Dead(rec, "AttributeError")
  ELSE IF \E u \in TaskIds \ {t} : task[u].pc = "recv" /\ task[u].on = websocket
    THEN Dead(rec, "RuntimeError")
  ELSE IF conn[websocket] = "closed" THEN Handler(rec)
  ELSE [rec EXCEPT !.pc = "recv", !.on = websocket]

IdleCaller == [pc |-> "idle", on |-> NoConn, last |-> "none", out |-> "none",
               mark |-> 0, wasListening |-> FALSE]

\* The channel is Listening: the handle refers to an open connection, a loop
\* awaits a message on it and no connect() is under way.
Listening ==
  /\ websocket # NoConn
  /\ conn[websocket] = "open"
  /\ \E t \in TaskIds : task[t].pc = "recv" /\ task[t].on = websocket
  /\ \A t \in TaskIds : task[t].pc \notin {"open", "send"}
  /\ caller.pc = "idle"

\* ---- connect(), called by the caller (lines 264-281)
ConnectCall ==
  /\ caller.pc = "idle"
  /\ IF ConnectGuard(access_token)
       THEN caller' = [IdleCaller EXCEPT !.pc = "open", !.last = "connect", !.out = "running"]
       ELSE caller' = [IdleCaller EXCEPT !.last = "connect", !.out = "AuthRequired"]
  /\ UNCHANGED <<websocket, conn, sent, listeners, task, regHist, httpVars>>

\* Lines 270-278: websockets.connect returned connection k; the handle is set
\* and the auth frame is written to it.
OpenedStale(k) ==
  /\ k = nOpened + 1
  /\ k \in ConnIds
  /\ conn' = [conn EXCEPT ![k] = "open"]
  /\ websocket' = k
  /\ sent' = [sent EXCEPT ![k] =
               Append(sent[k], IF k = 1 THEN AuthFrame(access_token) ELSE sent[1][1])]
Opened(k) ==
  /\ k = nOpened + 1
  /\ k \in ConnIds
  /\ conn' = [conn EXCEPT ![k] = "open"]
  /\ websocket' = k
  /\ sent' = [sent EXCEPT ![k] = Append(sent[k], AuthFrame(access_token))]

CallerOpenOk ==
  /\ caller.pc = "open"
  /\ \E k \in ConnIds : Opened(k) /\ caller' = [caller EXCEPT !.pc = "send", !.on = k]
  /\ UNCHANGED <<listeners, task, regHist, httpVars>>

\* websockets.connect raised: connect() raises to the caller.
CallerOpenFail ==
  /\ caller.pc = "open"
  /\ caller' = [caller EXCEPT !.pc = "idle", !.out = "ConnectError"]
  /\ UNCHANGED <<websocket, conn, sent, listeners, task, regHist, httpVars>>

\* Lines 275-281: the send completed and the receive loop task is created, or
\* the connection closed under the send and send raised ConnectionClosed.
CallerSent ==
  /\ caller.pc = "send"
  /\ IF conn[caller.on] = "open"
       THEN /\ task' = [task EXCEPT ![caller.on] = StartedTask]
            /\ caller' = [caller EXCEPT !.pc = "idle", !.out = "ok"]
       ELSE /\ task' = task
            /\ caller' = [caller EXCEPT !.pc = "idle", !.out = "SendError"]
  /\ UNCHANGED <<websocket, conn, sent, listeners, regHist, httpVars>>

\* ---- disconnect() (lines 308-312)
DisconnectCall ==
  /\ caller.pc = "idle"
  /\ IF websocket # NoConn
       THEN /\ conn' = [conn EXCEPT ![websocket] = "closed"]
            /\ caller' = [pc |-> "close", on |-> websocket, last |-> "disconnect",
                          out |-> "running", mark |-> nOpened, wasListening |-> Listening]
       ELSE /\ conn' = conn
            /\ caller' = [IdleCaller EXCEPT !.last = "disconnect", !.out = "ok",
                                            !.mark = nOpened]
  /\ UNCHANGED <<websocket, sent, listeners, task, regHist, httpVars>>

\* Line 312: close() returned; the handle is cleared, whatever it refers to now.
DisconnectDone ==
  /\ caller.pc = "close"
  /\ websocket' = NoConn
  /\ caller' = [caller EXCEPT !.pc = "idle", !.out = "ok"]
  /\ UNCHANGED <<conn, sent, listeners, task, regHist, httpVars>>

\* ---- the environment: the server or the network drops a connection
ServerDrop(k) ==
  /\ conn[k] = "open"
  /\ conn' = [conn EXCEPT ![k] = "closed"]
  /\ UNCHANGED <<websocket, sent, listeners, task, caller, regHist, httpVars>>

\* ---- _listen (lines 283-295)
TaskStart(t) ==
  /\ task[t].pc = "start"
  /\ task' = [task EXCEPT ![t] = LoopTop(t, task[t])]
  /\ UNCHANGED <<websocket, conn, sent, listeners, caller, regHist, httpVars>>

\* Lines 287-291: a message of type e is received.
DeliverEager(t, e) ==
  /\ task[t].pc \in {"recv", "dispatch"}
  /\ conn[task[t].on] = "open"
  /\ task' = [task EXCEPT ![t] =
                IF e \in DOMAIN listeners
                  THEN [task[t] EXCEPT !.pc = "dispatch", !.msg = e, !.todo = listeners[e],
                                       !.size = BagCardinality(listeners[e]), !.inv = <<>>]
                  ELSE LoopTop(t, task[t])]
  /\ UNCHANGED <<websocket, conn, sent, listeners, caller, regHist, httpVars>>
Deliver(t, e) ==
  /\ task[t].pc = "recv"
  /\ conn[task[t].on] = "open"
  /\ task' = [task EXCEPT ![t] =
                IF e \in DOMAIN listeners
                  THEN [task[t] EXCEPT !.pc = "dispatch", !.msg = e, !.todo = listeners[e],
                                       !.size = BagCardinality(listeners[e])]
                  ELSE LoopTop(t, task[t])]
  /\ UNCHANGED <<websocket, conn, sent, listeners, caller, regHist, httpVars>>

\* The for loop is over: the message and its iterator are dropped.
Dispatched(rec) == [rec EXCEPT !.msg = "", !.todo = EmptyBag, !.size = 0, !.inv = <<>>]

\* The callbacks the iterator of line 291 can still yield.
Candidates(rec) == {f \in BagToSet(rec.todo) : BagIn(f, listeners[rec.msg])}

\* Lines 291-292: one step of the for loop: the set iterator raises
\* RuntimeError when the set changed size, ends the loop when exhausted, and
\* otherwise yields a callback, which is awaited and returns (ok) or raises.
Iterate(t, ok) ==
  /\ task[t].pc = "dispatch"
  /\ IF BagCardinality(listeners[task[t].msg]) # task[t].size
       THEN task' = [task EXCEPT ![t] = Dead(task[t], "RuntimeError")]
     ELSE IF Candidates(task[t]) = {}
       THEN task' = [task EXCEPT ![t] = LoopTop(t, Dispatched(task[t]))]
     ELSE \E f \in Candidates(task[t]) :
            LET ran == [task[t] EXCEPT !.inv = Append(@, f),
                                       !.todo = @ (-) SetToBag({f})]
            IN task' = [task EXCEPT ![t] = IF ok THEN ran ELSE Dead(ran, "callback")]
  /\ UNCHANGED <<websocket, conn, sent, listeners, caller, regHist, httpVars>>

\* Lines 293-295: recv() raises ConnectionClosed.
DetectDrop(t) ==
  /\ task[t].pc = "recv"
  /\ conn[task[t].on] = "closed"
  /\ task' = [task EXCEPT ![t] = Handler(task[t])]
  /\ UNCHANGED <<websocket, conn, sent, listeners, caller, regHist, httpVars>>

\* connect() run by the loop: websockets.connect returned connection k.
TaskOpenOk(t) ==
  /\ task[t].pc = "open"
  /\ \E k \in ConnIds : Opened(k) /\ task' = [task EXCEPT ![t].pc = "send", ![t].on = k]
  /\ UNCHANGED <<listeners, caller, regHist, httpVars>>

\* websockets.connect raised inside the except block: the task ends.
TaskOpenFailRetry(t) ==
  /\ task[t].pc = "open"
  /\ task' = [task EXCEPT ![t].pc = "recv"]
  /\ UNCHANGED <<websocket, conn, sent, listeners, caller, regHist, httpVars>>
TaskOpenFail(t) ==
  /\ task[t].pc = "open"
  /\ task' = [task EXCEPT ![t] = Dead(task[t], "ConnectError")]
  /\ UNCHANGED <<websocket, conn, sent, listeners, caller, regHist, httpVars>>

\* The send completed: the new loop is created and this one returns; or send
\* raised ConnectionClosed inside the except block.
TaskSent(t) ==
  /\ task[t].pc = "send"
  /\ IF conn[task[t].on] = "open"
       THEN task' = [task EXCEPT ![t].pc = "done", ![task[t].on] = StartedTask]
       ELSE task' = [task EXCEPT ![t] = Dead(task[t], "SendError")]
  /\ UNCHANGED <<websocket, conn, sent, listeners, caller, regHist, httpVars>>

\* ---- on / off (lines 297-306)
\* set.add and set.discard; the registry holds bags so that a registry which
\* kept duplicates would be a different value.
SetAddAppend(S, f) == S (+) SetToBag({f})
SetAdd(S, f) == IF BagIn(f, S) THEN S ELSE S (+) SetToBag({f})
SetDiscardKeep(S, f) == S
SetDiscard(S, f) == IF BagIn(f, S) THEN S (-) SetToBag({f}) ELSE S

Registered(e, f) == e \in DOMAIN listeners /\ BagIn(f, listeners[e])

WithKey(reg, e) ==
  IF e \in DOMAIN reg THEN reg
  ELSE [x \in DOMAIN reg \cup {e} |-> IF x = e THEN EmptyBag ELSE reg[x]]

OnRegistry(reg, e, f) == [WithKey(reg, e) EXCEPT ![e] = SetAdd(@, f)]

OffRegistry(reg, e, f) ==
  IF e \in DOMAIN reg THEN [reg EXCEPT ![e] = SetDiscard(@, f)] ELSE reg

On(e, f) ==
  /\ listeners' = OnRegistry(listeners, e, f)
  /\ regHist' = [regHist EXCEPT ![<<e, f>>] = IF Registered(e, f) THEN "dup" ELSE "on"]
  /\ UNCHANGED <<websocket, conn, sent, task, caller, httpVars>>

Off(e, f) ==
  /\ listeners' = OffRegistry(listeners, e, f)
  /\ regHist' = IF Registered(e, f) THEN [regHist EXCEPT ![<<e, f>>] = "off"] ELSE regHist
  /\ UNCHANGED <<websocket, conn, sent, task, caller, httpVars>>

CallerStep ==
  \/ ConnectCall
  \/ CallerOpenOk
  \/ CallerOpenFail
  \/ CallerSent
  \/ DisconnectCall
  \/ DisconnectDone

LoopStep ==
  \E t \in TaskIds :
    \/ TaskStart(t)
    \/ \E e \in EventTypes : Deliver(t, e)
    \/ DetectDrop(t)
    \/ TaskOpenOk(t)
    \/ TaskOpenFail(t)
    \/ TaskSent(t)

DropStep == \E k \in ConnIds : ServerDrop(k)

OnStep == \E e \in EventTypes, f \in Callbacks : On(e, f)
OffStep == \E e \in EventTypes, f \in Callbacks : Off(e, f)
IterateStep == \E t \in TaskIds, ok \in BOOLEAN : Iterate(t, ok)

\* The life cycle of the channel: connect, drops, reconnects, disconnect.
NextNotif == CallerStep \/ LoopStep \/ DropStep

\* The listener registry and the dispatch of messages on a channel that the
\* caller connects once.
NextReg ==
  \/ (caller.last = "none" /\ ConnectCall)
  \/ CallerOpenOk
  \/ CallerSent
  \/ \E t \in TaskIds : TaskStart(t)
  \/ \E t \in TaskIds, e \in EventTypes : Deliver(t, e)
  \/ IterateStep
  \/ OnStep
  \/ OffStep

\* --------------------------------------------------------------------- Init
InitTokens == {None, "t1"}          \* tokens pre-seeded at construction

Init ==
  /\ access_token \in InitTokens
  /\ refresh_token \in InitTokens
  /\ op = [c \in Callers |-> Idle]
  /\ stack = [c \in Callers |-> <<>>]
  /\ calls = [c \in Callers |-> <<>>]
  /\ result = [c \in Callers |-> NoResult]
  /\ cfg0 = [c \in Callers |-> [at |-> None, rt |-> None]]
  /\ websocket = NoConn
  /\ conn = [k \in ConnIds |-> "unopened"]
  /\ sent = [k \in ConnIds |-> <<>>]
  /\ listeners = <<>>
  /\ task = [t \in TaskIds |-> NoTask]
  /\ caller = IdleCaller
  /\ regHist = [p \in EventTypes \X Callbacks |-> "never"]

CallStep == \E c \in MainCaller, name \in OpNames : Call(c, name)
ResponseStep ==
  \E c \in MainCaller :
    \E resp \in UNION {Responses(ep) : ep \in {EpGeneric, EpLogin, EpRegister, EpVerify, EpRefresh}} :
      Response(c, resp)

Next == CallStep \/ ResponseStep

ConcOps == {"request", "login", "refresh_access_token"}
ConcCallStep == \E c \in Callers, name \in ConcOps : op[c] = Idle /\ Call(c, name)
ConcResponseStep ==
  \E c \in Callers :
    \E resp \in UNION {Responses(ep) : ep \in {EpGeneric, EpLogin, EpRefresh}} :
      ResponseConc(c, resp)
StoreRefreshStep == \E c \in Callers : StoreRefresh(c)

NextConc == ConcCallStep \/ ConcResponseStep \/ StoreRefreshStep

\* The channel while the caller logs in once (the token changes between
\* connections).
LoginCallStep == \E c \in MainCaller : op[c] = Idle /\ Call(c, "login")
LoginAnsweredStep ==
  \E c \in MainCaller :
    \E resp \in Responses(EpLogin) : resp.status = StOk /\ Response(c, resp)

NextTok == LoginCallStep \/ LoginAnsweredStep \/ CallerStep \/ LoopStep \/ DropStep

\* The channel left to itself once a connect() of the caller has succeeded:
\* drops and reconnects only, while the caller may log in.
NextOnce ==
  \/ (caller.out # "ok" /\ ConnectCall)
  \/ CallerOpenOk
  \/ CallerOpenFail
  \/ CallerSent
  \/ LoopStep
  \/ DropStep
  \/ LoginCallStep
  \/ LoginAnsweredStep

\* The HTTP side: one caller; request() never yields to the event loop
\* (session.request blocks), so API calls of one loop run one after another.
Spec == Init /\ [][Next]_vars

\* Two callers on different threads share one SDK object, one API call each.
SpecConc == Init /\ [][NextConc]_vars

SpecTok == Init /\ [][NextTok]_vars

SpecNotif == Init /\ [][NextNotif]_vars

SpecOnce == Init /\ [][NextOnce]_vars

SpecReg == Init /\ [][NextReg]_vars


\* ==================================================================== claims
Last(q) == q[Len(q)]

\* The API call of c is a generic request() made while Config held a refresh
\* token, and its original HTTP call was answered 401.
First401(c) ==
  /\ op[c].name = "request"
  /\ Truthy(cfg0[c].rt)
  /\ Len(calls[c]) >= 1
  /\ calls[c][1].done
  /\ calls[c][1].resp.status = StUnauthorized

\* C1: a request() made while Config holds a refresh token whose original call
\* is answered 401 runs the refresh flow and then re-issues the original
\* request exactly once, never a second time, and the re-issued request
\* carries the access token the refresh installed.
C1_RetriedExactlyOnce ==
  \A c \in Callers :
    First401(c) =>
      /\ Len(calls[c]) >= 2
      /\ calls[c][2].ep = EpRefresh
      /\ Cardinality({i \in 2..Len(calls[c]) : calls[c][i].ep = calls[c][1].ep}) <= 1
      /\ (/\ calls[c][2].done
          /\ calls[c][2].resp.status = StOk
          /\ calls[c][2].resp.body.success
          /\ Truthy(calls[c][2].resp.body.accessToken))
           => /\ Len(calls[c]) >= 3
              /\ calls[c][3].ep = calls[c][1].ep
              /\ calls[c][3].auth = calls[c][2].resp.body.accessToken

\* C2: when request() gets 401 and the refresh call it triggers is answered
\* with 401 or another error status, request() raises that error, issues no
\* second refresh call and does not re-issue the original request.
C2_FailedRefreshSurfaces ==
  \A c \in Callers :
    (/\ First401(c)
     /\ Len(calls[c]) >= 2
     /\ calls[c][2].done
     /\ calls[c][2].resp.status # StOk)
      => /\ Len(calls[c]) = 2
         /\ op[c].st = "done"
         /\ result[c].kind = "error"
         /\ result[c].status = calls[c][2].resp.status

\* C3: every API call ends after a bounded number of HTTP calls whatever the
\* server answers: the original call, one refresh and one retry at most.
C3_AtMostThreeCalls == \A c \in Callers : Len(calls[c]) <= 3

\* C4: every HTTP call issued (original, refresh or retry) carries no
\* Authorization header when Config.access_token is absent (None or empty) at
\* the moment of the call, and Bearer <that token> otherwise.
C4_HeaderMatchesConfig ==
  [][\A c \in Callers :
       (calls'[c] # calls[c] /\ calls'[c] # <<>> /\ ~Last(calls'[c]).done)
         => IF access_token' \in {None, Empty}
              THEN Last(calls'[c]).auth = NoHeader
              ELSE Last(calls'[c]).auth = access_token']_vars

\* C4 witness: a retried call is in flight with the token a refresh installed,
\* which differs from the header of the original call.
C4_Witness ==
  \E c \in Callers :
    /\ Len(calls[c]) = 3
    /\ ~calls[c][3].done
    /\ calls[c][3].ep = calls[c][1].ep
    /\ calls[c][3].auth = access_token
    /\ calls[c][3].auth # calls[c][1].auth
    /\ calls[c][1].auth # NoHeader

LoginDone(c) ==
  /\ op[c] = [name |-> "login", st |-> "done"]
  /\ result[c].kind = "ok"

\* The successful refreshes that ran inside the API call of c.
RefreshedAt(c) ==
  {i \in 1..Len(calls[c]) :
     /\ calls[c][i].ep = EpRefresh
     /\ calls[c][i].done
     /\ calls[c][i].resp.status = StOk
     /\ calls[c][i].resp.body.success}

MaxOf(S) == CHOOSE x \in S : \A y \in S : y <= x

\* C5 as stated: after login, a response flagged success leaves Config with
\* exactly the response's tokens, a response with success false leaves both
\* token fields as they were before the call, and login returns the response.
C5_LoginTokensAsStated ==
  \A c \in Callers :
    LoginDone(c) =>
      /\ result[c].body = Last(calls[c]).resp.body
      /\ IF result[c].body.success
           THEN /\ access_token = result[c].body.accessToken
                /\ refresh_token = result[c].body.refreshToken
           ELSE /\ access_token = cfg0[c].at
                /\ refresh_token = cfg0[c].rt

\* C5 amended: as C5, except that with success false the access token is the
\* one installed by the last successful refresh that a 401 answer triggered
\* inside the login call, if there was one; login itself writes nothing then.
C5_LoginTokens ==
  \A c \in Callers :
    LoginDone(c) =>
      /\ result[c].body = Last(calls[c]).resp.body
      /\ IF result[c].body.success
           THEN /\ access_token = result[c].body.accessToken
                /\ refresh_token = result[c].body.refreshToken
           ELSE /\ refresh_token = cfg0[c].rt
                /\ access_token =
                     IF RefreshedAt(c) = {} THEN cfg0[c].at
                     ELSE calls[c][MaxOf(RefreshedAt(c))].resp.body.accessToken

\* C5 witness: a login that ended with success false after a refresh replaced
\* the access token.
C5_Witness ==
  \E c \in Callers :
    /\ LoginDone(c)
    /\ ~result[c].body.success
    /\ result[c].body.accessToken # access_token
    /\ access_token # cfg0[c].at
    /\ refresh_token = cfg0[c].rt

\* C6: connect() called while Config has no access token fails with the
\* auth-required error and has no effect: no connection opened, no frame sent,
\* no receive loop started, handle unchanged.
C6_ConnectNeedsToken ==
  [][(ConnectCall /\ ~Truthy(access_token))
       => /\ caller'.out = "AuthRequired"
          /\ caller'.pc = "idle"
          /\ UNCHANGED <<websocket, conn, sent, task>>]_vars

\* C6 witness: a connect() call has failed with the auth-required error and
\* nothing was opened.
C6_Witness ==
  /\ ~Truthy(access_token)
  /\ caller.last = "connect"
  /\ caller.out = "AuthRequired"
  /\ caller.pc = "idle"
  /\ nOpened = 0
  /\ websocket = NoConn
  /\ \A t \in TaskIds : task[t].pc = "none"

\* The loop t caught a connection drop and ran connect(), which failed.
ReconnectFailed(t) ==
  /\ task[t].pc = "dead"
  /\ task[t].why \in {"AuthRequired", "ConnectError", "SendError"}

\* The loop t caught a connection drop and its connect() completed: a new
\* connection was opened, the auth frame is the frame sent on it and a new
\* receive loop was started for it.
Reconnected(t) ==
  /\ task[t].pc = "done"
  /\ task[t].on \in ConnIds \ {t}
  /\ conn[task[t].on] # "unopened"
  /\ Len(sent[task[t].on]) = 1
  /\ sent[task[t].on][1].type = "auth"
  /\ task[task[t].on].pc # "none"

C8_DisconnectIsTerminal ==
  (caller.last = "disconnect" /\ caller.wasListening)
    => /\ nOpened = caller.mark
       /\ caller.pc = "idle" => websocket = NoConn

Count(f, q) == Cardinality({i \in 1..Len(q) : q[i] = f})

\* C9: on(e, f) for an f already registered for e leaves the registry as it
\* is, and the dispatch of one message of type e invokes each callback
\* registered for e exactly once.
C9_RegistrationIdempotent ==
  /\ [][\A e \in EventTypes, f \in Callbacks :
          (Registered(e, f) /\ On(e, f)) => listeners' = listeners]_vars
  /\ [](\A t \in TaskIds, f \in Callbacks : Count(f, task[t].inv) <= 1)
  /\ [][\A t \in TaskIds, f \in Callbacks :
          (/\ task[t].pc = "dispatch"
           /\ task'[t].pc \notin {"dispatch", "dead"}
           /\ Registered(task[t].msg, f)
           /\ BagIn(f, task[t].todo) \/ Count(f, task[t].inv) > 0)
            => Count(f, task[t].inv) = 1]_vars

\* C9 witness: f was registered twice for the type of the message being
\* dispatched, the for loop has nothing left to yield and f ran once.
C9_Witness ==
  \E t \in TaskIds :
    /\ task[t].pc = "dispatch"
    /\ regHist[<<task[t].msg, "f">>] = "dup"
    /\ Candidates(task[t]) = {}
    /\ task[t].inv = <<"f">>

\* A step in which the loop t invokes callback f.
Invoked(t, f) ==
  /\ task[t].pc = "dispatch"
  /\ task'[t].inv = Append(task[t].inv, f)

\* C10: off(e, f) leaves f unregistered for e, only on(e, f) registers it
\* again, and only callbacks registered for the message's type are invoked,
\* so f is not invoked for e from an off(e, f) until the next on(e, f);
\* off of something unregistered changes nothing; on and off for e leave the
\* callback sets of the other event types as they are.
C10_OffUnregisters ==
  /\ [][\A e \in EventTypes, f \in Callbacks : Off(e, f) => ~Registered(e, f)']_vars
  /\ [][\A e \in EventTypes, f \in Callbacks :
          (~Registered(e, f) /\ Registered(e, f)') => On(e, f)]_vars
  /\ [][\A t \in TaskIds, f \in Callbacks :
          Invoked(t, f) => Registered(task[t].msg, f)]_vars
  /\ [][\A e \in EventTypes, f \in Callbacks :
          (Off(e, f) /\ ~Registered(e, f)) => listeners' = listeners]_vars
  /\ [][\A e \in EventTypes, f \in Callbacks :
          (On(e, f) \/ Off(e, f))
            => \A x \in EventTypes \ {e} :
                 /\ x \in DOMAIN listeners' <=> x \in DOMAIN listeners
                 /\ x \in DOMAIN listeners => listeners'[x] = listeners[x]]_vars

\* C10 witness: f was registered for the message's type and then removed; the
\* message was dispatched to g alone.
C10_Witness ==
  \E t \in TaskIds :
    /\ task[t].pc = "dispatch"
    /\ regHist[<<task[t].msg, "f">>] = "off"
    /\ ~Registered(task[t].msg, "f")
    /\ Candidates(task[t]) = {}
    /\ task[t].inv = <<"g">>
\* The i-th HTTP call of c was a refresh call that failed: it was answered
\* with an error status or not at all, or its response is not flagged success.
RefreshFailedAt(c, i) ==
  /\ calls[c][i].ep = EpRefresh
  /\ calls[c][i].done
  /\ calls[c][i].resp.status # StOk \/ ~calls[c][i].resp.body.success

\* C11: a failed refresh (the call raises or the response is not flagged
\* success) leaves Config Unauthenticated, the access token cleared, and is
\* surfaced as an error; a successful refresh leaves Config Authenticated.
C11_FailedRefreshUnauthenticates ==
  \A c \in Callers :
    op[c] = [name |-> "refresh_access_token", st |-> "done"] =>
      IF RefreshFailedAt(c, Len(calls[c]))
        THEN ~Truthy(access_token) /\ result[c].kind = "error"
        ELSE Truthy(access_token) /\ result[c].kind = "ok"

\* The access token Config holds during the API call of c if nothing but the
\* refreshes that ran inside the call wrote it.
AccessAfterRefreshes(c) ==
  IF RefreshedAt(c) = {} THEN cfg0[c].at
  ELSE calls[c][MaxOf(RefreshedAt(c))].resp.body.accessToken

Passthrough(c) == op[c].name \in {"register", "verify_email"}

\* C12 as stated: during and after register() and verify_email() both token
\* fields of Config are what they were before the call, whatever the server
\* answers.
C12_NoTokenEffectAsStated ==
  \A c \in Callers :
    Passthrough(c) => access_token = cfg0[c].at /\ refresh_token = cfg0[c].rt

\* C12 amended: register() and verify_email() write no token themselves: the
\* refresh token is what it was before the call, and the access token too
\* unless a 401 answer triggered a refresh flagged success, whose access token
\* it then is.
C12_NoTokenEffect ==
  \A c \in Callers :
    Passthrough(c) =>
      /\ refresh_token = cfg0[c].rt
      /\ access_token = AccessAfterRefreshes(c)

\* C12 witness: register() returned after a 401 and a refresh that replaced
\* the access token.
C12_Witness ==
  \E c \in Callers :
    /\ op[c] = [name |-> "register", st |-> "done"]
    /\ result[c].kind = "ok"
    /\ RefreshedAt(c) # {}
    /\ access_token # cfg0[c].at
    /\ refresh_token = cfg0[c].rt

\* The i-th HTTP call of c got an answer that request() neither retries nor
\* refreshes for: an error status other than 401, a 401 while Config holds no
\* refresh token, or no response at all.
FinalFailureAt(c, i) ==
  /\ calls[c][i].done
  /\ \/ calls[c][i].resp.status = StServerError
     \/ calls[c][i].resp.status = NoStatus
     \/ calls[c][i].resp.status = StUnauthorized /\ ~Truthy(cfg0[c].rt)

\* C14: such an answer ends the API call with the SDK error carrying that
\* status code (none for a transport failure): no refresh call and no
\* re-issue follow it.
C14_ErrorStatusSurfaces ==
  \A c \in Callers :
    \A i \in 1..Len(calls[c]) :
      FinalFailureAt(c, i) =>
        /\ i = Len(calls[c])
        /\ op[c].st = "done"
        /\ result[c] = [kind |-> "error", status |-> calls[c][i].resp.status]

\* C14 witness: a request() answered 401 while Config held no refresh token
\* ended with the error carrying 401 after that single call.
C14_Witness ==
  \E c \in Callers :
    /\ op[c] = [name |-> "request", st |-> "done"]
    /\ ~Truthy(cfg0[c].rt)
    /\ Len(calls[c]) = 1
    /\ calls[c][1].resp.status = StUnauthorized
    /\ result[c] = [kind |-> "error", status |-> StUnauthorized]
\* Caller c waits for the answer to a refresh call that a 401 triggered.
RefreshInFlight(c) ==
  /\ op[c].st = "running"
  /\ stack[c] # LoginMidStore
  /\ Len(calls[c]) > 1
  /\ Last(calls[c]).ep = EpRefresh
  /\ ~Last(calls[c]).done

\* C13: refreshes are serialized: among API calls in flight at the same time
\* that were each answered 401, at most one has a refresh call in flight.
C13_RefreshSerialized ==
  Cardinality({c \in Callers : RefreshInFlight(c)}) <= 1

\* The in-flight HTTP call of c is answered in this step.
AnsweredNow(c) ==
  /\ calls[c] # <<>>
  /\ ~Last(calls[c]).done
  /\ calls'[c][Len(calls[c])].done

AnswerNow(c) == calls'[c][Len(calls[c])]

SuccessFrom(c, eps) ==
  /\ AnswerNow(c).ep \in eps
  /\ AnswerNow(c).resp.status = StOk
  /\ AnswerNow(c).resp.body.success

\* C15: under every interleaving of two callers, the access token changes
\* only when a login or refresh call is answered with a response flagged
\* success, and then to that response's access token; the refresh token
\* changes only by a login answered with a response flagged success, and then
\* to that response's refresh token; a refresh never changes it.
C15_TokenProvenance ==
  [][/\ access_token' # access_token =>
          \E c \in Callers :
            /\ AnsweredNow(c)
            /\ SuccessFrom(c, {EpLogin, EpRefresh})
            /\ access_token' = AnswerNow(c).resp.body.accessToken
     /\ refresh_token' # refresh_token =>
          \E c \in Callers :
            /\ op[c].name = "login"
            /\ Last(calls[c]).ep = EpLogin
            /\ Last(calls[c]).done
            /\ Last(calls[c]).resp.status = StOk
            /\ Last(calls[c]).resp.body.success
            /\ refresh_token' = Last(calls[c]).resp.body.refreshToken
     /\ \A c \in Callers :
          (AnsweredNow(c) /\ AnswerNow(c).ep = EpRefresh) =>
             refresh_token' = refresh_token]_vars

\* C15 witness: a login of one caller completed while the other caller's
\* request() was waiting for its refresh; that refresh then replaced the access
\* token the login had stored and left the login's refresh token in place.
C15_Witness ==
  \E c \in Callers, d \in Callers :
    /\ c # d
    /\ op[c] = [name |-> "login", st |-> "done"]
    /\ Last(calls[c]).resp.body.success
    /\ op[d] = [name |-> "request", st |-> "done"]
    /\ RefreshedAt(d) # {}
    /\ access_token = calls[d][MaxOf(RefreshedAt(d))].resp.body.accessToken
    /\ access_token # Last(calls[c]).resp.body.accessToken
    /\ refresh_token = Last(calls[c]).resp.body.refreshToken
    /\ refresh_token # cfg0[d].rt
\* C16: when connect() opens connection k (for the caller or for a reconnecting
\* loop) the frames sent on k are exactly the auth frame carrying the access
\* token Config holds at that step; the first frame of a connection never
\* changes afterwards; and a receive loop is created for k only when that auth
\* frame has been sent on k.
C16_AuthFrameFirst ==
  [][\A k \in ConnIds :
       /\ (conn[k] = "unopened" /\ conn'[k] # "unopened") =>
             sent'[k] = <<[type |-> "auth", token |-> access_token]>>
       /\ sent[k] # <<>> => (sent'[k] # <<>> /\ sent'[k][1] = sent[k][1])
       /\ (task[k].pc = "none" /\ task'[k].pc # "none") =>
             (sent[k] # <<>> /\ sent[k][1].type = "auth")]_vars

\* C16 witness: a loop reconnected after a drop and after a login had changed
\* the access token: the new connection carries the auth frame with the new
\* token, unlike the first connection's, and its receive loop runs.
C16_Witness ==
  \E k \in ConnIds \ {1} :
    /\ task[1].pc = "done"
    /\ task[k].pc = "recv"
    /\ sent[k] = <<[type |-> "auth", token |-> access_token]>>
    /\ sent[1] # <<>>
    /\ sent[k][1].token # sent[1][1].token
\* C17: a loop takes up a message only while it awaits recv(), with every
\* callback of the message before it finished; every callback invocation
\* belongs to the message being dispatched and is of a callback registered for
\* that message's type, so a type without callbacks invokes nothing.
C17_DispatchInOrder ==
  [][\A t \in TaskIds :
       /\ (task'[t].msg # task[t].msg /\ task'[t].msg # "") =>
             /\ task[t].pc = "recv"
             /\ task[t].inv = <<>>
             /\ task'[t].inv = <<>>
       /\ (task'[t].inv # task[t].inv /\ task'[t].inv # <<>>) =>
             /\ task[t].pc = "dispatch"
             /\ task'[t].msg = task[t].msg
             /\ \E f \in Callbacks :
                  /\ task'[t].inv = Append(task[t].inv, f)
                  /\ task[t].msg \in DOMAIN listeners
                  /\ BagIn(f, listeners[task[t].msg])]_vars

\* C17 witness: a message was dispatched to f, the one callback of its type,
\* while g, registered for another type only, was not invoked.
C17_Witness ==
  \E t \in TaskIds :
    /\ task[t].pc = "dispatch"
    /\ task[t].inv = <<"f">>
    /\ Candidates(task[t]) = {}
    /\ ~Registered(task[t].msg, "g")
    /\ \E e \in EventTypes \ {task[t].msg} : Registered(e, "g")

\* C18: a callback that raises does not end the receive loop.
C18_LoopSurvivesCallback ==
  \A t \in TaskIds : ~(task[t].pc = "dead" /\ task[t].why = "callback")
\* A receive loop that has not ended: created, awaiting a message,
\* dispatching, or reconnecting.
ActiveLoop(t) == task[t].pc \in {"start", "recv", "dispatch", "open", "send"}

\* C19: whenever the caller is between calls, at most one receive loop is
\* active and the only connection still open is the one the handle refers to.
C19_SingleLoopSingleConnection ==
  caller.pc = "idle" =>
    /\ Cardinality({t \in TaskIds : ActiveLoop(t)}) <= 1
    /\ \A k \in ConnIds : conn[k] = "open" => websocket = k

\* C20: a loop that caught a drop makes one attempt to connect: from the
\* attempt it goes on to the auth frame or ends, from the auth frame it ends
\* either way, and an ended loop never runs again; a loop starts an attempt
\* only on finding its connection closed; and once the attempt has failed no
\* receive loop is active and the handle refers to a closed connection.
C20_ReconnectOnce ==
  /\ [][\A t \in TaskIds :
          /\ (task[t].pc = "open" /\ task'[t] # task[t]) =>
                task'[t].pc \in {"send", "dead"}
          /\ (task[t].pc = "send" /\ task'[t] # task[t]) =>
                task'[t].pc \in {"done", "dead"}
          /\ task[t].pc \in {"done", "dead"} => task'[t] = task[t]
          /\ (task[t].pc # "open" /\ task'[t].pc = "open") =>
                /\ task[t].pc \in {"start", "recv"}
                /\ conn[websocket] = "closed"
          /\ (task[t].pc = "open" /\ task'[t].pc = "send") =>
                nOpened' = nOpened + 1]_vars
  /\ [](\A t \in TaskIds :
          (task[t].pc = "dead" /\ task[t].why \in {"ConnectError", "SendError"}) =>
             /\ \A u \in TaskIds : ~ActiveLoop(u)
             /\ websocket \in ConnIds
             /\ conn[websocket] = "closed")

\* C20 witness: the connection dropped, the loop's attempt to connect failed
\* and the loop ended: no loop is left and the handle still refers to the
\* dropped connection.
C20_Witness ==
  \E t \in TaskIds :
    /\ task[t].pc = "dead"
    /\ task[t].why = "ConnectError"
    /\ websocket = t
    /\ conn[t] = "closed"
    /\ \A u \in TaskIds : ~ActiveLoop(u)
====
